---- MODULE Spec2Model ----
(***************************************************************************)
(* A model of the wxpush message-relay service: the request-authentication *)
(* protocol (core/security.py, core/dependencies.py), the /send routes     *)
(* (routers/send.py, main.py) and the two channel adapters                 *)
(* (services/wechat.py, services/workwechat.py, utils/http_client.py).     *)
(*                                                                         *)
(* Conventions.                                                            *)
(*  - A Python str is a sequence of tokens (a token is one character or    *)
(*    one indivisible word); "" is << >> and + / f-strings are \o.         *)
(*  - Optional[T] is a sequence of length at most one: None is << >> and   *)
(*    a value v is <<v>>.                                                  *)
(*  - The Chinese message texts of the source are written as English       *)
(*    glosses, token by token, so that the substring tests of the source   *)
(*    ("X" in error_msg) keep their meaning.                               *)
(*  - HMAC-SHA256 is an ideal keyed hash: its hex digest is a string that  *)
(*    determines (secret, message) and nothing else produces it.           *)
(***************************************************************************)
EXTENDS Integers, Sequences, FiniteSets, TLC

VARIABLES
    settings,        \* core/config.py: the global Settings() instance
    now,             \* int(time.time()) as read by verify_timestamp
    async_client,    \* utils/http_client.py: _async_client ("None", "open", "closing")
    pc,              \* where the request in flight stands
    req,             \* the raw inbound request (query parameters or JSON body)
    auth,            \* what the auth validator returned for it (None until run)
    result,          \* the adapter's result dict (None until produced)
    token_calls,     \* outbound token fetches issued for the request
    send_calls,      \* outbound message sends issued for the request
    vendor,          \* what the vendor answered to the calls of this request
    resp,            \* the HTTP response (None until produced)
    sec,             \* inputs and outputs of the security functions called directly
    prev,            \* an adapter called directly: what its first call did (else None)
    key_file,        \* api_keys.json: as it was when Settings() was built, and as it is
    clients_created  \* how many AsyncClient instances have been constructed

vars == <<settings, now, async_client, pc, req, auth, result, token_calls,
          send_calls, vendor, resp, sec, prev, key_file, clients_created>>

-----------------------------------------------------------------------------
(* Python values *)

None == << >>

Some(v) == <<v>>

\* Python truthiness of an Optional[str]: neither None nor "".
Truthy(o) == o # None /\ o[1] # << >>

Digits == <<"0", "1", "2", "3", "4", "5", "6", "7", "8", "9">>

RECURSIVE NatToStr(_)
NatToStr(n) ==
    IF n < 10 THEN <<Digits[n + 1]>>
    ELSE NatToStr(n \div 10) \o <<Digits[(n % 10) + 1]>>

\* str(i) / f"{i}" of a Python int
IntToStr(i) == IF i < 0 THEN <<"-">> \o NatToStr(0 - i) ELSE NatToStr(i)

\* needle in hay (Python's substring test), on token sequences
Contains(hay, needle) ==
    \E i \in 0..(Len(hay) - Len(needle)) :
        SubSeq(hay, i + 1, i + Len(needle)) = needle

\* x in l, for a Python list
InList(x, l) == \E i \in 1..Len(l) : l[i] = x

-----------------------------------------------------------------------------
(* core/security.py *)

TIMESTAMP_VALIDITY_WINDOW == 300

ERRCODE_INVALID_API_KEY == 40001

ERRCODE_INVALID_SIGNATURE == 40002

ERRCODE_TIMESTAMP_EXPIRED == 40003

\* "项目识别码无效"
MSG_INVALID_KEY == <<"project", "api-key", "invalid">>

\* "使用签名验证时，时间戳参数必填"
MSG_TIMESTAMP_REQUIRED ==
    <<"using", "signature", "verification", "when", ",", "timestamp",
      "parameter", "required">>

\* "请求时间戳过期"
MSG_TIMESTAMP_EXPIRED == <<"request", "timestamp", "expired">>

\* "识别码签名验证失败"
MSG_SIGNATURE_FAILED == <<"api-key", "signature", "verification", "failed">>

\* "验证成功"
MSG_OK == <<"verification", "succeeded">>

\* api_keys.json as Settings._load_api_keys_from_file finds it: missing (or
\* unreadable), or a JSON object whose "valid_keys" is a list of keys or null.
NO_KEY_FILE == [exists |-> FALSE, valid_keys |-> None]

KeyFileWith(valid_keys) == [exists |-> TRUE, valid_keys |-> valid_keys]

\* Settings._load_api_keys_from_file: data.get("valid_keys", []) as it is
\* (None for a JSON null), [] without a readable file.
load_api_keys_from_file(file) ==
    IF file.exists THEN file.valid_keys ELSE Some(<< >>)

\* [key for key in v.split(",") if key]: the non-empty parts between commas.
RECURSIVE SplitComma(_)
SplitComma(v) ==
    LET commas == {i \in 1..Len(v) : v[i] = ","}
        first == IF commas = { } THEN Len(v) + 1
                 ELSE CHOOSE i \in commas : \A j \in commas : i <= j
        head == SubSeq(v, 1, first - 1)
        tail == IF first > Len(v) THEN << >> ELSE SplitComma(SubSeq(v, first + 1, Len(v)))
    IN  IF head = << >> THEN tail ELSE <<head>> \o tail

\* Settings.parse_api_keys, the "before" validator of api_keys. It runs on
\* the default None as well (BaseSettings validates defaults): v is the
\* API_KEYS environment variable, None when unset.
parse_api_keys(v, file) ==
    IF v # None
    THEN IF v[1] # << >> THEN Some(SplitComma(v[1]))
         ELSE load_api_keys_from_file(file)
    ELSE load_api_keys_from_file(file)

\* Settings.api_keys_list: the file is read again when api_keys is None.
api_keys_list ==
    IF settings.api_keys = None THEN load_api_keys_from_file(key_file.current)
    ELSE settings.api_keys

\* verify_api_key without its two early returns (a faulty variant).
verify_api_key_accept_empty(api_key) ==
    api_key = << >> \/ (api_keys_list # None /\ InList(api_key, api_keys_list[1]))

verify_api_key(api_key) ==
    IF api_key = << >> THEN FALSE
    ELSE IF ~Truthy(api_keys_list) THEN FALSE
    ELSE InList(api_key, api_keys_list[1])

\* hmac.new(secret, message, sha256).hexdigest()
HexDigest(secret, message) == <<"hmac-sha256(">> \o secret \o <<"|">> \o message \o <<")">>

\* The result of a call that may raise: raised is the exception's class
\* ("" when the call returned), value what it returned.
Returned(v) == [raised |-> "", value |-> v]

Raised(e) == [raised |-> e, value |-> << >>]

generate_signature(api_key, timestamp, payload, secret) ==
    LET s == IF secret = None
             THEN (IF Truthy(settings.api_key_secret) THEN settings.api_key_secret[1] ELSE << >>)
             ELSE secret[1]
    IN  IF s = << >> THEN Raised("ValueError")
        ELSE Returned(HexDigest(s, api_key \o IntToStr(timestamp) \o payload))

\* The tokens of the model that stand for a non-ASCII character.
NonAscii == {"U+00E9"}

IsAscii(s) == \A i \in 1..Len(s) : s[i] \notin NonAscii

\* hmac.compare_digest(a, b) on two str: TypeError unless both are ASCII.
compare_digest(a, b) ==
    IF IsAscii(a) /\ IsAscii(b) THEN Returned(a = b) ELSE Raised("TypeError")

\* verify_signature comparing only a common prefix (a faulty variant).
verify_signature_prefix(api_key, timestamp, payload, signature, secret) ==
    LET expected == generate_signature(api_key, timestamp, payload, secret)
    IN  IF expected.raised # "" THEN FALSE
        ELSE \E n \in 1..Len(signature) :
                 SubSeq(expected.value, 1, n) = SubSeq(signature, 1, n)

\* verify_signature ignoring its secret argument (a faulty variant).
verify_signature_own_secret(api_key, timestamp, payload, signature, secret) ==
    LET expected == generate_signature(api_key, timestamp, payload, None)
    IN  IF expected.raised # "" THEN FALSE
        ELSE LET c == compare_digest(expected.value, signature)
             IN  IF c.raised # "" THEN FALSE ELSE c.value

verify_signature(api_key, timestamp, payload, signature, secret) ==
    LET expected == generate_signature(api_key, timestamp, payload, secret)
    IN  IF expected.raised # "" THEN FALSE                 \* except ValueError
        ELSE LET c == compare_digest(expected.value, signature)
             IN  IF c.raised # "" THEN FALSE               \* except TypeError
                 ELSE c.value

\* verify_timestamp without abs() (a faulty variant).
verify_timestamp_past_only(timestamp, validity_window) ==
    now - timestamp <= validity_window

verify_timestamp(timestamp, validity_window) ==
    LET current_time == now
        d == current_time - timestamp
        time_diff == IF d < 0 THEN 0 - d ELSE d
    IN  time_diff <= validity_window

\* The validator comparing the signature before it tests the timestamp (a
\* faulty variant).
validate_signature_before_timestamp(api_key, timestamp, payload, signature) ==
    IF ~verify_api_key(api_key) THEN <<FALSE, MSG_INVALID_KEY>>
    ELSE IF Truthy(signature) /\ timestamp = None
         THEN <<FALSE, MSG_TIMESTAMP_REQUIRED>>
    ELSE IF Truthy(signature)
            /\ ~verify_signature(api_key, timestamp[1], payload, signature[1], None)
         THEN <<FALSE, MSG_SIGNATURE_FAILED>>
    ELSE IF Truthy(signature)
            /\ ~verify_timestamp(timestamp[1], TIMESTAMP_VALIDITY_WINDOW)
         THEN <<FALSE, MSG_TIMESTAMP_EXPIRED>>
    ELSE <<TRUE, MSG_OK>>

\* The validator testing the timestamp even without a signature (a faulty
\* variant).
validate_timestamp_always(api_key, timestamp, payload, signature) ==
    IF ~verify_api_key(api_key) THEN <<FALSE, MSG_INVALID_KEY>>
    ELSE IF timestamp # None /\ ~verify_timestamp(timestamp[1], TIMESTAMP_VALIDITY_WINDOW)
         THEN <<FALSE, MSG_TIMESTAMP_EXPIRED>>
    ELSE IF Truthy(signature) /\ timestamp = None
         THEN <<FALSE, MSG_TIMESTAMP_REQUIRED>>
    ELSE IF Truthy(signature)
            /\ ~verify_signature(api_key, timestamp[1], payload, signature[1], None)
         THEN <<FALSE, MSG_SIGNATURE_FAILED>>
    ELSE <<TRUE, MSG_OK>>

\* Returns the tuple (is_valid, error_msg).
validate_api_key_with_signature(api_key, timestamp, payload, signature) ==
    IF ~verify_api_key(api_key) THEN <<FALSE, MSG_INVALID_KEY>>
    ELSE IF Truthy(signature) /\ timestamp = None
         THEN <<FALSE, MSG_TIMESTAMP_REQUIRED>>
    ELSE IF Truthy(signature)
            /\ ~verify_timestamp(timestamp[1], TIMESTAMP_VALIDITY_WINDOW)
         THEN <<FALSE, MSG_TIMESTAMP_EXPIRED>>
    ELSE IF Truthy(signature)
            /\ ~verify_signature(api_key, timestamp[1], payload, signature[1], None)
         THEN <<FALSE, MSG_SIGNATURE_FAILED>>
    ELSE <<TRUE, MSG_OK>>

-----------------------------------------------------------------------------
(* core/dependencies.py *)

\* "签名验证失败" and "时间戳过期", the substrings the error code is chosen by
NEEDLE_SIGNATURE_FAILED == <<"signature", "verification", "failed">>

NEEDLE_TIMESTAMP_EXPIRED == <<"timestamp", "expired">>

\* auth_errcode with the two codes exchanged (a faulty variant).
auth_errcode_swapped(error_msg) ==
    IF Contains(error_msg, NEEDLE_SIGNATURE_FAILED) THEN ERRCODE_TIMESTAMP_EXPIRED
    ELSE IF Contains(error_msg, NEEDLE_TIMESTAMP_EXPIRED) THEN ERRCODE_INVALID_SIGNATURE
    ELSE ERRCODE_INVALID_API_KEY

\* The if/elif/else of verify_api_key_dependency and verify_api_key_from_body
\* that picks the error code from the error message.
auth_errcode(error_msg) ==
    IF Contains(error_msg, NEEDLE_SIGNATURE_FAILED) THEN ERRCODE_INVALID_SIGNATURE
    ELSE IF Contains(error_msg, NEEDLE_TIMESTAMP_EXPIRED) THEN ERRCODE_TIMESTAMP_EXPIRED
    ELSE ERRCODE_INVALID_API_KEY

-----------------------------------------------------------------------------
(* schemas/send.py and the transports of routers/send.py *)

\* The inbound request before any parsing: each field is absent (None) or the
\* value the client sent. timestamp holds an int, every other field a str.
Fields ==
    {"api_key", "title", "content", "appid", "secret", "userid", "base_url",
     "template_id", "agentid", "channel", "timestamp", "signature"}

\* The field names in lexicographic order (sorted() / sort_keys=True).
SortedFields ==
    <<"agentid", "api_key", "appid", "base_url", "channel", "content", "secret",
      "signature", "template_id", "timestamp", "title", "userid">>

\* The text of a field as it stands in the query string.
RawText(r, f) == IF f = "timestamp" THEN IntToStr(r[f][1]) ELSE r[f][1]

RECURSIVE JoinPairs(_, _, _)
JoinPairs(r, names, i) ==
    IF i > Len(names) THEN << >>
    ELSE <<names[i], "=">> \o RawText(r, names[i])
         \o (IF i < Len(names) THEN <<"&">> ELSE << >>)
         \o JoinPairs(r, names, i + 1)

\* verify_api_key_dependency: dict(request.query_params) without "signature",
\* sorted by key, joined as k=v with "&".
QueryPayload(r) ==
    LET present(f) == f # "signature" /\ r[f] # None
    IN  JoinPairs(r, SelectSeq(SortedFields, present), 1)

\* SendRequest's defaults: channel is "wechat" when the client sent none.
WithDefaults(r) ==
    [r EXCEPT !.channel = IF r.channel = None THEN Some(<<"wechat">>) ELSE r.channel]

\* One "key": value member of json.dumps (ensure_ascii=False; the values of
\* the model hold no character JSON escapes).
JsonMember(r, f) ==
    <<"\"", f, "\"", ":", " ">>
    \o (IF f = "timestamp" THEN IntToStr(r[f][1]) ELSE <<"\"">> \o r[f][1] \o <<"\"">>)

RECURSIVE JoinMembers(_, _, _)
JoinMembers(r, names, i) ==
    IF i > Len(names) THEN << >>
    ELSE JsonMember(r, names[i])
         \o (IF i < Len(names) THEN <<",", " ">> ELSE << >>)
         \o JoinMembers(r, names, i + 1)

\* verify_api_key_from_body: json.dumps(payload_dict, sort_keys=True) of the
\* parsed SendRequest sr: the six required fields, and base_url, template_id,
\* channel when truthy, timestamp when not None.
BodyPayload(sr) ==
    LET member(f) ==
            \/ f \in {"api_key", "title", "content", "appid", "secret", "userid"}
            \/ f \in {"base_url", "template_id", "channel"} /\ Truthy(sr[f])
            \/ f = "timestamp" /\ sr.timestamp # None
    IN  <<"{">> \o JoinMembers(sr, SelectSeq(SortedFields, member), 1) \o <<"}">>

KNOWN_CHANNELS == {<<"wechat">>, <<"workwechat">>}

TITLE_MAX_LENGTH == 200

CONTENT_MAX_LENGTH == 5000

BASE_URL_MAX_LENGTH == 500

\* The fields of r that violate the SendRequest model (pydantic): a required
\* field absent, a length out of range, a channel outside the Literal.
SchemaErrors(r) ==
    {f \in {"api_key", "title", "content", "appid", "secret", "userid"} : r[f] = None}
    \cup {f \in {"title"} : r[f] # None /\ Len(r[f][1]) \notin 1..TITLE_MAX_LENGTH}
    \cup {f \in {"content"} : r[f] # None /\ Len(r[f][1]) \notin 1..CONTENT_MAX_LENGTH}
    \cup {f \in {"appid", "secret", "userid"} : r[f] # None /\ Len(r[f][1]) < 1}
    \cup {f \in {"base_url"} : r[f] # None /\ Len(r[f][1]) > BASE_URL_MAX_LENGTH}
    \cup {f \in {"channel"} : r[f] # None /\ r[f][1] \notin KNOWN_CHANNELS}

\* The query parameters declared Query(...): required, with no length bound.
RequiredQueryParams == {"title", "content", "appid", "secret", "userid"}

-----------------------------------------------------------------------------
(* HTTP responses *)

HTTP_200_OK == 200

HTTP_400_BAD_REQUEST == 400

HTTP_401_UNAUTHORIZED == 401

HTTP_422_UNPROCESSABLE_ENTITY == 422

HTTP_500_INTERNAL_SERVER_ERROR == 500

ERRCODE_BAD_REQUEST == 40000

ERRCODE_VALIDATION == 42200

ERRCODE_INTERNAL == 50000

Response(status, errcode, errmsg, msgid) ==
    [status |-> status, errcode |-> errcode, errmsg |-> errmsg, msgid |-> msgid]

\* main.py validation_exception_handler (RequestValidationError)
validation_exception_handler ==
    Response(HTTP_422_UNPROCESSABLE_ENTITY, ERRCODE_VALIDATION,
             <<"request", "parameter", "validation", "failed">>, None)

\* main.py global_exception_handler (any other exception)
global_exception_handler ==
    Response(HTTP_500_INTERNAL_SERVER_ERROR, ERRCODE_INTERNAL,
             <<"server", "internal", "error">>, None)

\* The HTTPException(401) both auth dependencies raise on (False, error_msg).
AuthFailure(error_msg) ==
    Response(HTTP_401_UNAUTHORIZED, auth_errcode(error_msg), error_msg, None)

\* core/dependencies.py verify_api_key_dependency (GET): the validator's answer.
verify_api_key_dependency(r) ==
    LET payload == IF Truthy(r.signature) THEN QueryPayload(r) ELSE << >>
    IN  validate_api_key_with_signature(r.api_key[1], r.timestamp, payload, r.signature)

\* core/dependencies.py verify_api_key_from_body (POST), on the parsed request.
verify_api_key_from_body(sr) ==
    LET payload == IF Truthy(sr.signature) THEN BodyPayload(sr) ELSE << >>
    IN  validate_api_key_with_signature(sr.api_key[1], sr.timestamp, payload, sr.signature)

\* parse_send_request_from_query without its channel test (a faulty variant).
channel_rejected_never(channel) == FALSE

\* parse_send_request_from_query's channel test, on the channel with its
\* Query default applied.
channel_rejected(channel) == channel \notin KNOWN_CHANNELS

InvalidChannel(channel) ==
    Response(HTTP_400_BAD_REQUEST, ERRCODE_BAD_REQUEST,
             <<"invalid", "channel", "parameter", ":", " ">> \o channel, None)

-----------------------------------------------------------------------------
(* utils/http_client.py and the two adapters of services/ *)

WECHAT_TOKEN_URL == <<"https://api.weixin.qq.com/cgi-bin/token">>

WORKWECHAT_TOKEN_URL == <<"https://qyapi.weixin.qq.com/cgi-bin/gettoken">>

DigitValue(d) == CHOOSE n \in 0..9 : Digits[n + 1] = d

RECURSIVE DigitsToNat(_, _)
DigitsToNat(ds, acc) ==
    IF ds = << >> THEN acc
    ELSE DigitsToNat(Tail(ds), 10 * acc + DigitValue(Head(ds)))

IsDigits(ds) == ds # << >> /\ \A i \in 1..Len(ds) : \E n \in 1..10 : Digits[n] = ds[i]

\* int(s): Some(n), or None where Python raises ValueError.
ParseInt(s) ==
    IF s # << >> /\ Head(s) \in {"-", "+"}
    THEN IF IsDigits(Tail(s))
         THEN Some((IF Head(s) = "-" THEN -1 ELSE 1) * DigitsToNat(Tail(s), 0))
         ELSE None
    ELSE IF IsDigits(s) THEN Some(DigitsToNat(s, 0)) ELSE None

\* s.split(sep)[0]: the tokens before the first sep
BeforeFirst(s, sep) ==
    IF \E i \in 1..Len(s) : s[i] = sep
    THEN SubSeq(s, 1, (CHOOSE i \in 1..Len(s) :
                          s[i] = sep /\ \A j \in 1..(i - 1) : s[j] # sep) - 1)
    ELSE s

\* s.split(sep)[1]: the tokens between the first sep and the second
AfterFirst(s, sep) ==
    LET i == CHOOSE k \in 1..Len(s) : s[k] = sep /\ \A j \in 1..(k - 1) : s[j] # sep
    IN  BeforeFirst(SubSeq(s, i + 1, Len(s)), sep)

\* send_message never reading a code out of the message (a faulty variant).
ExtractErrcode_always_internal(error_msg) == ERRCODE_INTERNAL

\* The error code both send_message methods read back out of str(e):
\* error_msg.split("errcode=")[1].split(",")[0] as an int, else 50000.
ExtractErrcode(error_msg) ==
    IF \E i \in 1..Len(error_msg) : error_msg[i] = "errcode="
    THEN LET n == ParseInt(BeforeFirst(AfterFirst(error_msg, "errcode="), ","))
         IN  IF n = None THEN ERRCODE_INTERNAL ELSE n[1]
    ELSE ERRCODE_INTERNAL

\* The dict send_message returns from its except ValueError branch.
ValueErrorResult(error_msg) ==
    [errcode |-> ExtractErrcode(error_msg), errmsg |-> error_msg, msgid |-> None]

\* The dict send_message returns from its except Exception branch.
ExceptionResult(text) ==
    [errcode |-> ERRCODE_INTERNAL,
     errmsg |-> <<"send", "message", "failed", ":", " ">> \o text,
     msgid |-> None]

\* get_http_client's RuntimeError
CLIENT_NOT_INITIALIZED ==
    <<"HTTP client not initialized. Call init_http_client() first.">>

\* the RuntimeError of a request through an AsyncClient after aclose()
CLIENT_CLOSED ==
    <<"Cannot send a request, as the client has been closed.">>

\* A JSON scalar as response.json() hands it over: its JSON type, "int" or
\* "str", and its text (what f"{v}" prints).
JsonInt(n) == [type |-> "int", text |-> IntToStr(n)]

JsonStr(s) == [type |-> "str", text |-> s]

\* errcode != 0, for a JSON scalar: only the integer 0 equals 0.
NonZero(errcode) == ~(errcode.type = "int" /\ errcode.text = <<"0">>)

\* What fetch_json / post_json get from the vendor: transport is "ok" (a JSON
\* object came back with a success status), "request_error"
\* (httpx.RequestError), "status_error" (raise_for_status failed),
\* "not_json" (response.json() fails: json.JSONDecodeError, a ValueError) or
\* "not_object" (the JSON value is a list, which has no .get); errcode,
\* access_token and msgid are the members of the JSON object (None: absent),
\* errcode and msgid as JSON scalars.
Reply(transport, errcode, errmsg, access_token, msgid) ==
    [transport |-> transport, errcode |-> errcode, errmsg |-> errmsg,
     access_token |-> access_token, msgid |-> msgid]

\* The vendor's "system busy" code
VENDOR_ERRCODE_BUSY == -1

TokenReplies ==
    { Reply("ok", None, << >>, Some(<<"test_token">>), None),
      Reply("ok", Some(JsonInt(0)), <<"ok">>, Some(<<"test_token">>), None),
      Reply("ok", Some(JsonInt(40013)), <<"invalid appid">>, None, None),
      Reply("ok", Some(JsonStr(<<"0">>)), <<"ok">>, Some(<<"test_token">>), None),
      Reply("ok", None, << >>, None, None),
      Reply("request_error", None, << >>, None, None),
      Reply("status_error", None, << >>, None, None),
      Reply("not_json", None, << >>, None, None),
      Reply("not_object", None, << >>, None, None) }

VENDOR_MSGID_INT == 123456789

SendReplies ==
    { Reply("ok", Some(JsonInt(0)), <<"ok">>, None, Some(JsonInt(VENDOR_MSGID_INT))),
      Reply("ok", Some(JsonInt(0)), <<"ok">>, None, Some(JsonStr(<<"test_msgid">>))),
      Reply("ok", Some(JsonInt(0)), <<"ok">>, None, None),
      Reply("ok", Some(JsonInt(40003)), <<"invalid openid">>, None, None),
      Reply("ok", Some(JsonInt(VENDOR_ERRCODE_BUSY)), <<"system error">>, None, None),
      Reply("ok", Some(JsonStr(<<"0">>)), <<"ok">>, None, None),
      Reply("request_error", None, << >>, None, None),
      Reply("status_error", None, << >>, None, None),
      Reply("not_json", None, << >>, None, None),
      Reply("not_object", None, << >>, None, None) }

REQUEST_ERROR_TEXT == <<"All connection attempts failed">>

\* str(json.JSONDecodeError) for a body that is no JSON
JSON_DECODE_ERROR_TEXT == <<"Expecting value: line 1 column 1 (char 0)">>

\* str(AttributeError) for response_data.get on a list
ATTRIBUTE_ERROR_TEXT == <<"'list' object has no attribute 'get'">>

\* A call that raised the exception class e with str(e) = text.
RaisedWith(e, text) == [raised |-> e, value |-> text]

\* str(httpx.HTTPStatusError): it names the URL that was requested.
StatusErrorText(url) == <<"Server error '500 Internal Server Error' for url '">> \o url \o <<"'">>

VendorErrorText(prefix, reply) ==
    <<prefix, "errcode=">> \o reply.errcode[1].text
    \o <<",", " errmsg=">> \o reply.errmsg

\* utils/http_client.py get_access_token, after fetch_json answered reply:
\* the token, or the ValueError it raises.
get_access_token(reply) ==
    IF reply.transport = "status_error"
    THEN RaisedWith("ValueError", <<"Failed to get access token: HTTP ", "500">>)
    ELSE IF reply.transport = "request_error"
    THEN RaisedWith("ValueError", <<"Failed to get access token: ">> \o REQUEST_ERROR_TEXT)
    ELSE IF reply.transport = "not_json"
    THEN RaisedWith("ValueError", JSON_DECODE_ERROR_TEXT)
    ELSE IF reply.transport = "not_object"
    THEN RaisedWith("AttributeError", ATTRIBUTE_ERROR_TEXT)
    ELSE IF reply.errcode # None /\ NonZero(reply.errcode[1])
    THEN RaisedWith("ValueError", VendorErrorText("WeChat API error: ", reply))
    ELSE IF ~Truthy(reply.access_token)
    THEN RaisedWith("ValueError", <<"Access token not found in response">>)
    ELSE Returned(reply.access_token[1])

\* WorkWeChatService.get_access_token, after fetch_json answered reply for
\* the URL url (with its corpid / corpsecret query).
workwechat_get_access_token(reply, url) ==
    IF reply.transport = "status_error"
    THEN RaisedWith("ValueError",
                    <<"get", "WorkWeChat", "access", "token", "failed", ":", " ">>
                    \o StatusErrorText(url))
    ELSE IF reply.transport = "request_error"
    THEN RaisedWith("ValueError",
                    <<"get", "WorkWeChat", "access", "token", "failed", ":", " ">>
                    \o REQUEST_ERROR_TEXT)
    ELSE IF reply.transport = "not_json"
    THEN RaisedWith("ValueError", JSON_DECODE_ERROR_TEXT)
    ELSE IF reply.transport = "not_object"
    THEN RaisedWith("ValueError",
                    <<"get", "WorkWeChat", "access", "token", "failed", ":", " ">>
                    \o ATTRIBUTE_ERROR_TEXT)
    ELSE IF reply.errcode # None /\ NonZero(reply.errcode[1])
    THEN RaisedWith("ValueError", VendorErrorText("WorkWeChat API error: ", reply))
    ELSE IF ~Truthy(reply.access_token)
    THEN RaisedWith("ValueError", <<"Access token not found in response">>)
    ELSE Returned(reply.access_token[1])

WorkWeChatTokenUrl(sr) ==
    WORKWECHAT_TOKEN_URL \o <<"?", "corpid=">> \o sr.appid[1]
    \o <<"&", "corpsecret=">> \o sr.secret[1]

\* WeChatService.send_template_message's template_id: the explicit one, else
\* settings.default_wechat_template_id.
ResolveTemplateId(sr) ==
    IF Truthy(sr.template_id) THEN sr.template_id ELSE settings.default_wechat_template_id

TEMPLATE_ID_REQUIRED == <<"template_id", " ", "is", " ", "required">>

\* WorkWeChatService.send_message's agentid: the explicit one, else
\* settings.default_workwechat_agentid.
ResolveAgentId(sr) ==
    IF Truthy(sr.agentid) THEN sr.agentid ELSE settings.default_workwechat_agentid

\* send_message testing only that there is an agentid (a faulty variant).
AgentIdFailure_missing_only(sr) ==
    LET agentid == IF Truthy(sr.agentid) THEN sr.agentid
                   ELSE settings.default_workwechat_agentid
    IN  IF ~Truthy(agentid)
        THEN Some([errcode |-> ERRCODE_BAD_REQUEST,
                   errmsg |-> <<"agentid", " ", "is", " ", "required">>,
                   msgid |-> None])
        ELSE None

\* WorkWeChatService.send_message before its try: the error dict it returns
\* for a missing or non-integer agentid, None when the agentid passes.
AgentIdFailure(sr) ==
    LET agentid == ResolveAgentId(sr)
    IN  IF ~Truthy(agentid)
        THEN Some([errcode |-> ERRCODE_BAD_REQUEST,
                   errmsg |-> <<"agentid", " ", "is", " ", "required">>,
                   msgid |-> None])
        ELSE IF ParseInt(agentid[1]) = None
        THEN Some([errcode |-> ERRCODE_BAD_REQUEST,
                   errmsg |-> <<"agentid", " ", "must", " ", "be", " ", "an", " ",
                                "integer", ":", " ">> \o agentid[1],
                   msgid |-> None])
        ELSE None

WECHAT_TEMPLATE_SEND_URL == <<"https://api.weixin.qq.com/cgi-bin/message/template/send">>

WORKWECHAT_MESSAGE_SEND_URL == <<"https://qyapi.weixin.qq.com/cgi-bin/message/send">>

SendUrl(base, access_token) == base \o <<"?", "access_token=">> \o access_token

\* send_template_message / _send_text_message after post_json answered
\* reply for the URL url: the response dict, or the ValueError raised
\* (failed is the text the method puts before a transport error).
SendOutcome(prefix, failed, url, reply) ==
    IF reply.transport = "status_error"
    THEN RaisedWith("ValueError", failed \o StatusErrorText(url))
    ELSE IF reply.transport = "request_error"
    THEN RaisedWith("ValueError", failed \o REQUEST_ERROR_TEXT)
    ELSE IF reply.transport = "not_json"
    THEN RaisedWith("ValueError", JSON_DECODE_ERROR_TEXT)
    ELSE IF reply.transport = "not_object"
    THEN RaisedWith("ValueError", failed \o ATTRIBUTE_ERROR_TEXT)
    ELSE IF reply.errcode # None /\ NonZero(reply.errcode[1])
    THEN RaisedWith("ValueError", VendorErrorText(prefix, reply))
    ELSE Returned(reply)

\* The dict both send_message methods build on success.
SuccessResult(response_data) ==
    [errcode |-> 0, errmsg |-> <<"ok">>, msgid |-> response_data.msgid]

\* The classes the model's calls raise; all derive from Exception.
ExceptionClasses == {"ValueError", "RuntimeError", "AttributeError", "TypeError"}

\* send_message catching ValueError only (a faulty variant).
send_message_except_value_error_only(e) ==
    IF e.raised = "ValueError" THEN Returned(ValueErrorResult(e.value)) ELSE e

\* The two except clauses of send_message, for the exception e raised in
\* its try block: the dict it returns, or e itself when no clause matches.
send_message_except(e) ==
    IF e.raised = "ValueError" THEN Returned(ValueErrorResult(e.value))
    ELSE IF e.raised \in ExceptionClasses THEN Returned(ExceptionResult(e.value))
    ELSE e

-----------------------------------------------------------------------------
(* routers/send.py send_message_handler, after the adapter returned *)

\* SendResponse(errcode, errmsg, msgid): the pydantic model declares
\* msgid: str | None, and pydantic 2 does not coerce an int to str.
SendResponseRejects(msgid) == msgid # None /\ msgid[1].type # "str"

\* send_message_handler's except Exception: HTTPException(500) naming str(e).
handler_exception(text) ==
    Response(HTTP_500_INTERNAL_SERVER_ERROR, ERRCODE_INTERNAL,
             <<"server", "internal", "error", ":", " ">> \o text, None)

\* The message send_message_handler logs (logger.error) for a result with
\* a non-zero errcode.
handler_error_log(res) ==
    <<"message", "send", "failed", ":", " ", "errcode=">> \o IntToStr(res.errcode)
    \o <<",", " errmsg=">> \o res.errmsg

handler_response(res) ==
    IF res.errcode # 0
    THEN Response(HTTP_400_BAD_REQUEST, res.errcode, res.errmsg, None)
    ELSE IF SendResponseRejects(res.msgid)
    THEN handler_exception(<<"msgid: Input should be a valid string">>)
    ELSE Response(HTTP_200_OK, res.errcode, res.errmsg, res.msgid)

-----------------------------------------------------------------------------
(* The requests and configurations of the model *)

Epoch == 1000

KEY_A == <<"test_api_key_12345">>

KEY_B == <<"test_api_key_67890">>

SHARED_SECRET == <<"test_secret">>

\* The API_KEYS environment variable at process start: unset, or two keys.
EnvApiKeys == {None, Some(KEY_A \o <<",">> \o KEY_B)}

\* api_keys.json: missing, with two keys, or with "valid_keys": null.
KeyFiles == {NO_KEY_FILE, KeyFileWith(Some(<<KEY_A, KEY_B>>)), KeyFileWith(None)}

SettingsSet ==
    [api_keys : {parse_api_keys(v, NO_KEY_FILE) : v \in EnvApiKeys},
     api_key_secret : {None, Some(SHARED_SECRET)},
     default_wechat_template_id : {None, Some(<<"default_template_id">>)},
     default_workwechat_agentid : {None, Some(<<"1", "0", "0", "0", "0", "0", "1">>)}]

NoRequest == [f \in Fields \cup {"transport"} |-> IF f = "transport" THEN "" ELSE None]

\* The requests a client sends, before it signs them.
UnsignedRequests ==
    { r \in [transport : {"GET", "POST"},
             api_key : {None, Some(<< >>), Some(<<"invalid_api_key">>), Some(KEY_A)},
             title : {None, Some(<< >>), Some(<<"T">>)},
             content : {Some(<<"C">>)},
             appid : {Some(<<"test_appid">>)},
             secret : {Some(<<"test_app_secret">>)},
             userid : {Some(<<"test_userid">>)},
             base_url : {None},
             template_id : {None, Some(<<"test_template_id">>)},
             agentid : {None, Some(<<"7">>), Some(<<"a", "b", "c">>)},
             channel : {None, Some(<<"wechat">>), Some(<<"workwechat">>), Some(<<"bogus">>)},
             timestamp : {None, Some(now), Some(now - TIMESTAMP_VALIDITY_WINDOW - 1),
                          Some(now + TIMESTAMP_VALIDITY_WINDOW + 1)},
             signature : {None}] :
        \* the id of the other channel is left out
        /\ r.agentid # None => r.channel = Some(<<"workwechat">>)
        /\ r.template_id # None => r.channel \in {None, Some(<<"wechat">>)} }

SignatureKinds == {"absent", "empty", "signed", "as_sent", "tampered", "nonascii"}

\* The payload a client signs for a POST body r: the sorted-key JSON object
\* of the signable fields that are in the body it sends (signature excluded).
ClientBodyPayload(r) ==
    LET member(f) ==
            \/ f \in {"api_key", "title", "content", "appid", "secret", "userid"}
            \/ f \in {"base_url", "template_id", "channel", "timestamp"} /\ r[f] # None
    IN  <<"{">> \o JoinMembers(r, SelectSeq(SortedFields, member), 1) \o <<"}">>

\* The signature a client attaches: none, an empty one, the HMAC under the
\* shared secret of the payload as the server rebuilds it ("signed") or of
\* the payload made of the fields the client sent ("as_sent"), the HMAC with
\* its last character changed, or a text that is not ASCII.
ClientSignature(r, kind) ==
    LET signable ==
            /\ r.api_key # None /\ r.timestamp # None
            /\ r.transport = "POST" => SchemaErrors(r) = { }
        payload == IF r.transport = "GET" THEN QueryPayload(r)
                   ELSE IF kind = "as_sent" THEN ClientBodyPayload(r)
                   ELSE BodyPayload(WithDefaults(r))
        digest == generate_signature(r.api_key[1], r.timestamp[1], payload,
                                     Some(SHARED_SECRET)).value
    IN  CASE kind = "absent" -> None
          [] kind = "empty" -> Some(<< >>)
          [] kind \in {"signed", "as_sent"} /\ signable -> Some(digest)
          [] kind = "tampered" /\ signable ->
                Some(SubSeq(digest, 1, Len(digest) - 1) \o <<"0">>)
          [] OTHER -> Some(<<"sign", "U+00E9">>)

Requests ==
    { [r EXCEPT !.signature = ClientSignature(r, k)] :
        r \in UnsignedRequests, k \in SignatureKinds }

NoVendor == [token |-> None, send |-> None]

NoSec == [fn |-> "", api_key |-> << >>, timestamp |-> 0, payload |-> << >>,
          secret |-> None, signature |-> None, out |-> None]

-----------------------------------------------------------------------------
(* The service: one request in flight, from arrival to response *)

MaxClients == 2

Init ==
    /\ settings \in SettingsSet
    /\ key_file = [startup |-> NO_KEY_FILE, current |-> NO_KEY_FILE]
    /\ clients_created = 0
    /\ now = Epoch
    /\ async_client = "None"
    /\ pc = "idle"
    /\ req = NoRequest
    /\ auth = None
    /\ result = None
    /\ token_calls = 0
    /\ send_calls = 0
    /\ vendor = NoVendor
    /\ resp = None
    /\ sec = NoSec
    /\ prev = None

\* init_http_client constructing an AsyncClient on every call (a faulty
\* variant).
init_http_client_always_new ==
    /\ clients_created < MaxClients
    /\ async_client' = "open"
    /\ clients_created' = clients_created + 1
    /\ UNCHANGED <<settings, now, pc, req, auth, result, token_calls, send_calls,
                   vendor, resp, sec, prev, key_file>>

\* utils/http_client.py init_http_client (main.py startup_event, conftest.py):
\* an AsyncClient is constructed only when _async_client is None, else the
\* instance there is (open, or being closed) is returned as it is.
init_http_client ==
    /\ IF async_client = "None"
       THEN /\ clients_created < MaxClients
            /\ async_client' = "open"
            /\ clients_created' = clients_created + 1
       ELSE UNCHANGED <<async_client, clients_created>>
    /\ UNCHANGED <<settings, now, pc, req, auth, result, token_calls, send_calls,
                   vendor, resp, sec, prev, key_file>>

\* utils/http_client.py close_http_client (main.py shutdown_event) up to its
\* await: aclose() marks the instance closed, _async_client still names it.
close_http_client ==
    /\ async_client = "open"
    /\ async_client' = "closing"
    /\ UNCHANGED <<settings, now, pc, req, auth, result, token_calls, send_calls,
                   vendor, resp, sec, prev, key_file, clients_created>>

\* close_http_client after aclose() returned: _async_client = None.
close_http_client_done ==
    /\ async_client = "closing"
    /\ async_client' = "None"
    /\ UNCHANGED <<settings, now, pc, req, auth, result, token_calls, send_calls,
                   vendor, resp, sec, prev, key_file, clients_created>>

\* Somebody edits, creates or removes api_keys.json while the process runs.
KeyFileChanged ==
    /\ \E file \in KeyFiles \ {key_file.current} :
          key_file' = [key_file EXCEPT !.current = file]
    /\ UNCHANGED <<settings, now, async_client, pc, req, auth, result, token_calls,
                   send_calls, vendor, resp, sec, prev, clients_created>>

\* The server receives the request r while it serves no other.
Receive(r) ==
    /\ pc = "idle"
    /\ req' = r
    /\ pc' = "received"
    /\ auth' = None
    /\ result' = None
    /\ token_calls' = 0
    /\ send_calls' = 0
    /\ vendor' = NoVendor
    /\ resp' = None
    /\ UNCHANGED <<settings, now, async_client, sec, prev, key_file, clients_created>>

\* A client sends GET /send or POST /send.
Arrive == pc = "idle" /\ \E r \in Requests : Receive(r)

Finish(response) ==
    /\ resp' = Some(response)
    /\ pc' = "done"

\* GET: FastAPI solves verify_api_key_dependency first. A missing api_key is
\* a RequestValidationError (the dependency is not called, and the request
\* ends 422 whatever the other parameters are); else the dependency runs the
\* validator and raises HTTPException(401) on failure.
GetAuthenticate ==
    /\ pc = "received" /\ req.transport = "GET"
    /\ IF req.api_key = None
       THEN /\ Finish(validation_exception_handler)
            /\ auth' = auth
       ELSE LET v == verify_api_key_dependency(req)
            IN  /\ auth' = Some(v)
                /\ IF v[1] THEN pc' = "parse" /\ resp' = resp
                   ELSE Finish(AuthFailure(v[2]))
    /\ UNCHANGED <<settings, now, async_client, req, result, token_calls,
                   send_calls, vendor, sec, prev, key_file, clients_created>>

\* GET: parse_send_request_from_query. Its own Query(...) parameters are
\* validated (422), then the channel is tested (400), then SendRequest(...)
\* is constructed: a pydantic ValidationError raised there is no
\* RequestValidationError and reaches global_exception_handler (500).
GetParse ==
    /\ pc = "parse"
    /\ LET sr == WithDefaults(req)
       IN  IF \E f \in RequiredQueryParams : req[f] = None
           THEN Finish(validation_exception_handler)
           ELSE IF channel_rejected(sr.channel[1])
           THEN Finish(InvalidChannel(sr.channel[1]))
           ELSE IF SchemaErrors(sr) # { }
           THEN Finish(global_exception_handler)
           ELSE pc' = "handler" /\ resp' = resp
    /\ UNCHANGED <<settings, now, async_client, req, auth, result, token_calls,
                   send_calls, vendor, sec, prev, key_file, clients_created>>

\* POST: the body is parsed into SendRequest before send_message_post runs.
PostValidate ==
    /\ pc = "received" /\ req.transport = "POST"
    /\ IF SchemaErrors(req) # { }
       THEN Finish(validation_exception_handler)
       ELSE pc' = "body_auth" /\ resp' = resp
    /\ UNCHANGED <<settings, now, async_client, req, auth, result, token_calls,
                   send_calls, vendor, sec, prev, key_file, clients_created>>

\* send_message_post ignoring the validator's answer (a faulty variant).
PostAuthenticate_no_abort ==
    /\ pc = "body_auth"
    /\ auth' = Some(verify_api_key_from_body(WithDefaults(req)))
    /\ pc' = "handler"
    /\ UNCHANGED <<settings, now, async_client, req, result, token_calls,
                   send_calls, vendor, resp, sec, prev, key_file, clients_created>>

\* POST: send_message_post awaits verify_api_key_from_body.
PostAuthenticate ==
    /\ pc = "body_auth"
    /\ LET v == verify_api_key_from_body(WithDefaults(req))
       IN  /\ auth' = Some(v)
           /\ IF v[1] THEN pc' = "handler" /\ resp' = resp
              ELSE Finish(AuthFailure(v[2]))
    /\ UNCHANGED <<settings, now, async_client, req, result, token_calls,
                   send_calls, vendor, sec, prev, key_file, clients_created>>

IsWorkWeChat(sr) == sr.channel[1] = <<"workwechat">>

WORKWECHAT_TOKEN_FAILED == <<"get", "WorkWeChat", "access", "token", "failed", ":", " ">>

WECHAT_SEND_FAILED == <<"send", "WeChat", "template", "message", "failed", ":", " ">>

WORKWECHAT_SEND_FAILED == <<"send", "WorkWeChat", "message", "failed", ":", " ">>

\* send_message_handler picks the adapter and calls its send_message. The
\* WorkWeChat adapter resolves the agentid before anything else and returns
\* an error dict when it is missing or no integer.
Dispatch ==
    /\ pc = "handler"
    /\ LET sr == WithDefaults(req)
       IN  IF IsWorkWeChat(sr) /\ AgentIdFailure(sr) # None
           THEN result' = AgentIdFailure(sr) /\ pc' = "adapter_done"
           ELSE result' = result /\ pc' = "token"
    /\ UNCHANGED <<settings, now, async_client, req, auth, token_calls,
                   send_calls, vendor, resp, sec, prev, key_file, clients_created>>

\* send_message leaves its try block with the exception e: what its except
\* clauses make of it.
AdapterExcept(e) ==
    LET out == send_message_except(e)
    IN  IF out.raised = ""
        THEN result' = Some(out.value) /\ pc' = "adapter_done"
        ELSE result' = Some(out) /\ pc' = "adapter_raised"

\* The RuntimeError of a call without a usable client: get_http_client
\* raises when _async_client is None, the instance itself when it is closed.
ClientErrorText ==
    IF async_client = "None" THEN CLIENT_NOT_INITIALIZED ELSE CLIENT_CLOSED

\* send_message reusing the token of the call before (a faulty variant).
FetchToken_cached ==
    /\ pc = "token"
    /\ IF prev # None /\ prev[1].vendor.token # None
          /\ prev[1].vendor.token[1].transport = "ok"
          /\ prev[1].vendor.token[1].errcode = None
          /\ Truthy(prev[1].vendor.token[1].access_token)
       THEN /\ vendor' = [vendor EXCEPT !.token = prev[1].vendor.token]
            /\ pc' = "send"
            /\ UNCHANGED <<token_calls, result>>
       ELSE \E reply \in TokenReplies :
              /\ token_calls' = token_calls + 1
              /\ vendor' = [vendor EXCEPT !.token = Some(reply)]
              /\ IF get_access_token(reply).raised # ""
                 THEN AdapterExcept(get_access_token(reply))
                 ELSE result' = result /\ pc' = "send"
    /\ UNCHANGED <<settings, now, async_client, req, auth, send_calls, resp, sec,
                   prev, key_file, clients_created>>

\* send_message opening the shared client itself when there is none to use
\* (a faulty variant).
FetchToken_lazy_init ==
    /\ pc = "token"
    /\ async_client' = "open"
    /\ clients_created' = IF async_client = "open" THEN clients_created
                          ELSE clients_created + 1
    /\ \E reply \in TokenReplies :
          /\ token_calls' = token_calls + 1
          /\ vendor' = [vendor EXCEPT !.token = Some(reply)]
          /\ IF get_access_token(reply).raised # ""
             THEN AdapterExcept(get_access_token(reply))
             ELSE result' = result /\ pc' = "send"
    /\ UNCHANGED <<settings, now, req, auth, send_calls, resp, sec, prev, key_file>>

\* send_message waiting at the token step until a client is open (a faulty
\* variant).
FetchToken_waits_for_client ==
    /\ pc = "token"
    /\ async_client = "open"
    /\ \E reply \in TokenReplies :
          /\ token_calls' = token_calls + 1
          /\ vendor' = [vendor EXCEPT !.token = Some(reply)]
          /\ IF get_access_token(reply).raised # ""
             THEN AdapterExcept(get_access_token(reply))
             ELSE result' = result /\ pc' = "send"
    /\ UNCHANGED <<settings, now, async_client, req, auth, send_calls, resp, sec,
                   prev, key_file, clients_created>>

\* send_message going on to the send step whatever the token fetch did (a
\* faulty variant).
FetchToken_ignore_failure ==
    /\ pc = "token"
    /\ \E reply \in TokenReplies :
          /\ token_calls' = token_calls + 1
          /\ vendor' = [vendor EXCEPT !.token = Some(reply)]
    /\ pc' = "send"
    /\ UNCHANGED <<settings, now, async_client, req, auth, result, send_calls, resp,
                   sec, prev, key_file, clients_created>>

\* Step 1 of send_message: the token fetch (fetch_json). Without a client
\* get_http_client raises RuntimeError and nothing is sent: the WeChat
\* adapter lets it reach send_message's except clauses, the WorkWeChat
\* adapter wraps it in a ValueError first.
FetchToken ==
    /\ pc = "token"
    /\ LET sr == WithDefaults(req)
       IN  IF async_client # "open"
           THEN /\ AdapterExcept(IF IsWorkWeChat(sr)
                                 THEN RaisedWith("ValueError",
                                          WORKWECHAT_TOKEN_FAILED \o ClientErrorText)
                                 ELSE RaisedWith("RuntimeError", ClientErrorText))
                /\ UNCHANGED <<token_calls, vendor>>
           ELSE \E reply \in TokenReplies :
                  LET got == IF IsWorkWeChat(sr)
                             THEN workwechat_get_access_token(reply, WorkWeChatTokenUrl(sr))
                             ELSE get_access_token(reply)
                  IN  /\ token_calls' = token_calls + 1
                      /\ vendor' = [vendor EXCEPT !.token = Some(reply)]
                      /\ IF got.raised # ""
                         THEN AdapterExcept(got)
                         ELSE result' = result /\ pc' = "send"
    /\ UNCHANGED <<settings, now, async_client, req, auth, send_calls, resp, sec,
                   prev, key_file, clients_created>>

\* send_message issuing the send call again after it failed (a faulty
\* variant).
SendToVendor_retry ==
    /\ pc = "send"
    /\ \E reply \in SendReplies :
          /\ send_calls' = send_calls + 1
          /\ vendor' = [vendor EXCEPT !.send = Some(reply)]
          /\ IF reply.transport = "ok"
             THEN result' = Some(SuccessResult(reply)) /\ pc' = "adapter_done"
             ELSE result' = result /\ pc' = "send"
    /\ UNCHANGED <<settings, now, async_client, req, auth, token_calls, resp, sec,
                   prev, key_file, clients_created>>

\* Step 2 of send_message: send_template_message / _send_text_message
\* (post_json), then the result dict. The WeChat adapter resolves the
\* template_id here, after the token fetch.
SendToVendor ==
    /\ pc = "send"
    /\ LET sr == WithDefaults(req)
           access_token == vendor.token[1].access_token[1]
           failed == IF IsWorkWeChat(sr) THEN WORKWECHAT_SEND_FAILED ELSE WECHAT_SEND_FAILED
       IN  IF ~IsWorkWeChat(sr) /\ ~Truthy(ResolveTemplateId(sr))
           THEN /\ AdapterExcept(RaisedWith("ValueError", TEMPLATE_ID_REQUIRED))
                /\ UNCHANGED <<send_calls, vendor>>
           ELSE IF async_client # "open"
           THEN /\ AdapterExcept(RaisedWith("ValueError", failed \o ClientErrorText))
                /\ UNCHANGED <<send_calls, vendor>>
           ELSE \E reply \in SendReplies :
                  LET got == IF IsWorkWeChat(sr)
                             THEN SendOutcome("WorkWeChat API error: ", failed,
                                      SendUrl(WORKWECHAT_MESSAGE_SEND_URL, access_token), reply)
                             ELSE SendOutcome("WeChat API error: ", failed,
                                      SendUrl(WECHAT_TEMPLATE_SEND_URL, access_token), reply)
                  IN  /\ send_calls' = send_calls + 1
                      /\ vendor' = [vendor EXCEPT !.send = Some(reply)]
                      /\ IF got.raised # ""
                         THEN AdapterExcept(got)
                         ELSE /\ result' = Some(SuccessResult(got.value))
                              /\ pc' = "adapter_done"
    /\ UNCHANGED <<settings, now, async_client, req, auth, token_calls, resp, sec,
                   prev, key_file, clients_created>>

\* send_message_handler after the adapter returned: HTTPException(400) for
\* a non-zero errcode, else SendResponse (500 when its construction fails);
\* an exception out of the adapter is HTTPException(500) as well.
Respond ==
    /\ pc \in {"adapter_done", "adapter_raised"}
    /\ req.transport # "call"
    /\ IF pc = "adapter_raised"
       THEN Finish(handler_exception(result[1].value))
       ELSE Finish(handler_response(result[1]))
    /\ UNCHANGED <<settings, now, async_client, req, auth, result, token_calls,
                   send_calls, vendor, sec, prev, key_file, clients_created>>

\* The response has been sent; the server waits for the next request.
Complete ==
    /\ pc = "done"
    /\ pc' = "idle"
    /\ req' = NoRequest
    /\ auth' = None
    /\ result' = None
    /\ token_calls' = 0
    /\ send_calls' = 0
    /\ vendor' = NoVendor
    /\ resp' = None
    /\ UNCHANGED <<settings, now, async_client, sec, prev, key_file, clients_created>>

Next ==
    \/ init_http_client
    \/ close_http_client
    \/ close_http_client_done
    \/ Arrive
    \/ GetAuthenticate
    \/ GetParse
    \/ PostValidate
    \/ PostAuthenticate
    \/ Dispatch
    \/ FetchToken
    \/ SendToVendor
    \/ Respond
    \/ Complete

Spec == Init /\ [][Next]_vars

-----------------------------------------------------------------------------
(* The security functions called directly (as tests/test_security.py does) *)

Margin == 2

\* verify_timestamp on every timestamp around both ends of the window.
TimestampCalls ==
    { [NoSec EXCEPT !.fn = "verify_timestamp", !.timestamp = t] :
        t \in (Epoch - TIMESTAMP_VALIDITY_WINDOW - Margin)
              ..(Epoch + TIMESTAMP_VALIDITY_WINDOW + Margin) }

\* generate_signature, then verify_signature with the same arguments. The
\* keys "k" and "k1" and the timestamps 2 and 12 give triples whose
\* concatenations api_key || timestamp || payload can be compared.
SignatureCalls ==
    [fn : {"generate_signature"},
     api_key : {<< >>, KEY_A, <<"k">>, <<"k", "1">>},
     timestamp : {0 - 5, 0, 2, 12, Epoch},
     payload : {<< >>, <<"test_payload">>, <<"2">>},
     secret : {None, Some(<< >>), Some(SHARED_SECRET), Some(<<"other_secret">>)},
     signature : {None},
     out : {None}]

InitSec ==
    /\ settings \in {c \in SettingsSet :
                        /\ c.api_keys = Some(<< >>)
                        /\ c.default_wechat_template_id = None
                        /\ c.default_workwechat_agentid = None}
    /\ key_file = [startup |-> NO_KEY_FILE, current |-> NO_KEY_FILE]
    /\ clients_created = 0
    /\ now = Epoch
    /\ async_client = "None"
    /\ pc = "idle"
    /\ req = NoRequest
    /\ auth = None
    /\ result = None
    /\ token_calls = 0
    /\ send_calls = 0
    /\ vendor = NoVendor
    /\ resp = None
    /\ sec \in TimestampCalls \cup SignatureCalls
    /\ prev = None

ServiceUnchanged ==
    UNCHANGED <<settings, now, async_client, pc, req, auth, result, token_calls,
                send_calls, vendor, resp, prev, key_file, clients_created>>

CallVerifyTimestamp ==
    /\ sec.fn = "verify_timestamp" /\ sec.out = None
    /\ sec' = [sec EXCEPT !.out = Some(verify_timestamp(sec.timestamp,
                                                        TIMESTAMP_VALIDITY_WINDOW))]
    /\ ServiceUnchanged

CallGenerateSignature ==
    /\ sec.fn = "generate_signature"
    /\ LET g == generate_signature(sec.api_key, sec.timestamp, sec.payload, sec.secret)
       IN  sec' = IF g.raised # "" THEN [sec EXCEPT !.fn = g.raised]
                  ELSE [sec EXCEPT !.fn = "verify_signature", !.signature = Some(g.value)]
    /\ ServiceUnchanged

CallVerifySignature ==
    /\ sec.fn = "verify_signature" /\ sec.out = None
    /\ sec' = [sec EXCEPT !.out = Some(verify_signature(sec.api_key, sec.timestamp,
                                           sec.payload, sec.signature[1], sec.secret))]
    /\ ServiceUnchanged

NextSec ==
    \/ CallVerifyTimestamp
    \/ CallGenerateSignature
    \/ CallVerifySignature

SpecSec == InitSec /\ [][NextSec]_vars

-----------------------------------------------------------------------------
(* An adapter's send_message called directly, twice with the same arguments
   (as tests/test_wechat.py and tests/test_workwechat.py call it) *)

AdapterCalls ==
    { [r EXCEPT !.transport = "call"] :
        r \in { u \in UnsignedRequests :
                   /\ u.transport = "GET"
                   /\ u.api_key = Some(KEY_A)
                   /\ u.title = Some(<<"T">>)
                   /\ u.timestamp = None
                   /\ u.channel \in {Some(<<"wechat">>), Some(<<"workwechat">>)} } }

InitAdapter ==
    /\ settings \in {c \in SettingsSet :
                        c.api_keys = Some(<< >>) /\ c.api_key_secret = None}
    /\ key_file = [startup |-> NO_KEY_FILE, current |-> NO_KEY_FILE]
    /\ now = Epoch
    /\ async_client \in {"None", "open"}
    /\ clients_created = IF async_client = "open" THEN 1 ELSE 0
    /\ pc = "handler"
    /\ req \in AdapterCalls
    /\ auth = None
    /\ result = None
    /\ token_calls = 0
    /\ send_calls = 0
    /\ vendor = NoVendor
    /\ resp = None
    /\ sec = NoSec
    /\ prev = None

\* The first call returned; the caller calls send_message again with the
\* same arguments.
CallAgain ==
    /\ pc = "adapter_done"
    /\ req.transport = "call"
    /\ prev = None
    /\ prev' = Some([result |-> result, vendor |-> vendor,
                     token_calls |-> token_calls, send_calls |-> send_calls])
    /\ pc' = "handler"
    /\ result' = None
    /\ token_calls' = 0
    /\ send_calls' = 0
    /\ vendor' = NoVendor
    /\ UNCHANGED <<settings, now, async_client, req, auth, resp, sec, key_file,
                   clients_created>>

NextAdapter ==
    \/ init_http_client
    \/ close_http_client
    \/ close_http_client_done
    \/ Dispatch
    \/ FetchToken
    \/ SendToVendor
    \/ CallAgain

SpecAdapter == InitAdapter /\ [][NextAdapter]_vars

-----------------------------------------------------------------------------
(* The process from start to shutdown: key-only requests arrive while
   api_keys.json is edited and the HTTP client is opened and closed *)

LifeRequests ==
    { r \in UnsignedRequests :
        /\ r.api_key \in {Some(KEY_A), Some(<<"invalid_api_key">>)}
        /\ r.title = Some(<<"T">>)
        /\ r.timestamp = None
        /\ \/ r.channel = Some(<<"wechat">>) /\ r.template_id # None
           \/ r.channel = Some(<<"workwechat">>) /\ r.agentid = Some(<<"7">>) }

\* settings = Settings() at import: api_keys from API_KEYS or api_keys.json.
InitLife ==
    /\ \E file \in KeyFiles, v \in EnvApiKeys :
          /\ key_file = [startup |-> file, current |-> file]
          /\ settings = [api_keys |-> parse_api_keys(v, file),
                         api_key_secret |-> None,
                         default_wechat_template_id |-> None,
                         default_workwechat_agentid |-> None]
    /\ clients_created = 0
    /\ now = Epoch
    /\ async_client = "None"
    /\ pc = "idle"
    /\ req = NoRequest
    /\ auth = None
    /\ result = None
    /\ token_calls = 0
    /\ send_calls = 0
    /\ vendor = NoVendor
    /\ resp = None
    /\ sec = NoSec
    /\ prev = None

ArriveLife == pc = "idle" /\ \E r \in LifeRequests : Receive(r)

\* The steps of the request in flight. The event loop resumes a coroutine
\* that is ready, and every outbound call ends: init_http_client gives the
\* client connect, read, write and pool timeouts.
Serve ==
    \/ GetAuthenticate
    \/ GetParse
    \/ PostValidate
    \/ PostAuthenticate
    \/ Dispatch
    \/ FetchToken
    \/ SendToVendor
    \/ Respond

NextLife ==
    \/ init_http_client
    \/ close_http_client
    \/ close_http_client_done
    \/ KeyFileChanged
    \/ ArriveLife
    \/ GetAuthenticate
    \/ GetParse
    \/ PostValidate
    \/ PostAuthenticate
    \/ Dispatch
    \/ FetchToken
    \/ SendToVendor
    \/ Respond
    \/ Complete

SpecLife == InitLife /\ [][NextLife]_vars /\ WF_vars(Serve)

-----------------------------------------------------------------------------
(* Properties *)

AuthRan == auth # None

AuthFailed == auth # None /\ ~auth[1][1]

AuthPassed == auth # None /\ auth[1][1]

NoVendorCall == token_calls = 0 /\ send_calls = 0 /\ vendor = NoVendor

KeyInCredentialSet ==
    /\ req.api_key # None
    /\ req.api_key[1] # << >>
    /\ api_keys_list # None
    /\ \E i \in 1..Len(api_keys_list[1]) : api_keys_list[1][i] = req.api_key[1]

\* C1: whenever the auth validator has rejected the request in flight (GET or
\* POST), the request is over, its response is HTTP 401, and no token fetch
\* and no message send has been issued for it.
C1_AuthFailureStopsBeforeVendor ==
    AuthFailed =>
        /\ pc = "done"
        /\ resp # None
        /\ resp[1].status = 401
        /\ NoVendorCall

C1_Witness ==
    /\ AuthFailed
    /\ pc = "done"
    /\ req.transport = "POST"
    /\ req.channel = Some(<<"workwechat">>)

\* C2: for an api_key that is empty or not in the loaded credential set (the
\* empty set included), the validator answers (False, invalid key) whatever
\* the timestamp and the signature are, and /send answers 401 with 40001.
C2_UnknownKeyIsInvalidKey ==
    (AuthRan /\ ~KeyInCredentialSet) =>
        /\ auth[1] = <<FALSE, MSG_INVALID_KEY>>
        /\ resp # None
        /\ resp[1].status = 401
        /\ resp[1].errcode = 40001

C2_Witness ==
    /\ AuthRan
    /\ req.api_key = Some(KEY_A)
    /\ settings.api_keys = Some(<< >>)
    /\ Truthy(req.signature)
    /\ req.timestamp = Some(now)
    /\ resp # None /\ resp[1].errcode = 40001

\* C3: for an api_key in the credential set and no signature (none, or an
\* empty one), the validator answers ok whatever the timestamp is: absent,
\* inside the window or outside it.
C3_KeyOnlyModeAccepts ==
    (AuthRan /\ KeyInCredentialSet /\ ~Truthy(req.signature)) => auth[1][1] = TRUE

C3_Witness ==
    /\ AuthPassed
    /\ req.signature = None
    /\ req.timestamp = Some(now - 301)

\* C4: on GET and on POST alike an auth failure is HTTP 401, and its reason
\* fixes the error code: invalid key 40001, signature mismatch 40002,
\* expired timestamp 40003.
C4_ReasonFixesErrcode ==
    AuthFailed =>
        /\ resp # None
        /\ resp[1].status = 401
        /\ resp[1].errmsg = auth[1][2]
        /\ auth[1][2] = MSG_INVALID_KEY => resp[1].errcode = 40001
        /\ auth[1][2] = MSG_SIGNATURE_FAILED => resp[1].errcode = 40002
        /\ auth[1][2] = MSG_TIMESTAMP_EXPIRED => resp[1].errcode = 40003

C4_Witness ==
    /\ AuthFailed
    /\ req.transport = "GET"
    /\ auth[1][2] = MSG_TIMESTAMP_EXPIRED
    /\ resp # None /\ resp[1].errcode = 40003

\* C5: a request with a valid key, a signature and no timestamp is answered
\* 401 with errcode 40003 and a message that mentions the timestamp.
C5_MissingTimestampIs40003 ==
    (AuthRan /\ KeyInCredentialSet /\ Truthy(req.signature) /\ req.timestamp = None) =>
        /\ resp # None
        /\ resp[1].status = 401
        /\ resp[1].errcode = 40003
        /\ Contains(resp[1].errmsg, <<"timestamp">>)

\* C6: verify_timestamp accepts t exactly when |now - t| <= 300: now-300,
\* now-299, now+299 and now+300 pass, now-301 and now+301 do not.
C6_TimestampWindowSymmetric ==
    (sec.fn = "verify_timestamp" /\ sec.out # None) =>
        /\ sec.out[1] <=> (now - 300 <= sec.timestamp /\ sec.timestamp <= now + 300)
        /\ sec.timestamp \in {now - 300, now - 299, now + 299, now + 300} => sec.out[1]
        /\ sec.timestamp \in {now - 301, now + 301} => ~sec.out[1]

C6_Witness ==
    /\ sec.fn = "verify_timestamp"
    /\ sec.timestamp = now + 301
    /\ sec.out = Some(FALSE)

\* C7: whenever generate_signature returned a signature for (api_key,
\* timestamp, payload) under a secret, verify_signature of that signature
\* with the same arguments and the same secret is true.
C7_SignVerifyRoundTrip ==
    (sec.fn = "verify_signature" /\ sec.out # None) => sec.out = Some(TRUE)

C7_Witness ==
    /\ sec.fn = "verify_signature"
    /\ sec.secret = Some(<<"other_secret">>)
    /\ settings.api_key_secret = Some(SHARED_SECRET)
    /\ sec.payload = <<"test_payload">>
    /\ sec.out = Some(TRUE)

\* The payload the signature of the request in flight has to cover.
SignedPayload ==
    IF req.transport = "GET" THEN QueryPayload(req) ELSE BodyPayload(WithDefaults(req))

\* The signature is the HMAC of api_key || timestamp || payload under the
\* configured secret.
SignatureIsCorrect ==
    /\ settings.api_key_secret # None
    /\ settings.api_key_secret[1] # << >>
    /\ req.signature[1] =
           HexDigest(settings.api_key_secret[1],
                     req.api_key[1] \o IntToStr(req.timestamp[1]) \o SignedPayload)

\* C8: for a request with a valid key, a timestamp inside the window and a
\* (non-empty) signature that is not the correct HMAC, verify_signature is
\* false and the request is rejected for signature mismatch.
C8_WrongSignatureRejected ==
    ( /\ AuthRan /\ KeyInCredentialSet
      /\ Truthy(req.signature)
      /\ req.timestamp # None
      /\ now - 300 <= req.timestamp[1] /\ req.timestamp[1] <= now + 300
      /\ ~SignatureIsCorrect ) =>
        /\ ~verify_signature(req.api_key[1], req.timestamp[1], SignedPayload,
                             req.signature[1], None)
        /\ auth[1] = <<FALSE, MSG_SIGNATURE_FAILED>>
        /\ resp # None
        /\ resp[1].status = 401
        /\ resp[1].errcode = 40002

C8_Witness ==
    /\ AuthFailed
    /\ auth[1][2] = MSG_SIGNATURE_FAILED
    /\ settings.api_key_secret = Some(SHARED_SECRET)
    /\ IsAscii(req.signature[1])
    /\ req.transport = "POST"

VendorSucceeded ==
    /\ token_calls = 1 /\ send_calls = 1
    /\ vendor.send # None
    /\ vendor.send[1].transport = "ok"
    /\ vendor.send[1].errcode = Some(JsonInt(0))

\* C9: when the token fetch succeeded and the vendor's send response has
\* errcode 0, the caller gets HTTP 200 with errcode 0, errmsg "ok" and the
\* vendor's msgid unchanged, be it an integer or a string.
C9_VendorSuccessIs200 ==
    (pc = "done" /\ AuthPassed /\ VendorSucceeded) =>
        /\ resp[1].status = 200
        /\ resp[1].errcode = 0
        /\ resp[1].errmsg = <<"ok">>
        /\ resp[1].msgid = vendor.send[1].msgid

UnknownChannel ==
    /\ req.channel # None
    /\ req.channel[1] # <<"wechat">>
    /\ req.channel[1] # <<"workwechat">>

\* A request that has nothing wrong but its channel: the key is in the
\* credential set, every required field is there and well-formed, and the
\* validator does not (or would not) reject it.
OnlyChannelWrong ==
    /\ UnknownChannel
    /\ KeyInCredentialSet
    /\ SchemaErrors(req) = {"channel"}
    /\ req.transport = "GET" => AuthPassed
    /\ req.transport = "POST" => verify_api_key_from_body(WithDefaults(req))[1]

\* C10 as claimed: on GET and on POST, a request with a valid key and an
\* unknown channel is answered 400 with errcode 40000, and no vendor call
\* is made for it.
C10_UnknownChannelIs400 ==
    (pc = "done" /\ OnlyChannelWrong) =>
        /\ resp[1].status = 400
        /\ resp[1].errcode = 40000
        /\ NoVendorCall

\* C10 amended: with a valid key and an unknown channel, GET /send answers
\* 400 with errcode 40000 and POST /send answers 422 with errcode 42200
\* (the body fails the SendRequest schema); neither makes a vendor call.
C10_UnknownChannelRejectedPerTransport ==
    (pc = "done" /\ OnlyChannelWrong) =>
        /\ req.transport = "GET" => resp[1].status = 400 /\ resp[1].errcode = 40000
        /\ req.transport = "POST" => resp[1].status = 422 /\ resp[1].errcode = 42200
        /\ NoVendorCall

C10_Witness ==
    /\ pc = "done"
    /\ OnlyChannelWrong
    /\ req.transport = "GET"
    /\ resp[1].status = 400
    /\ async_client = "open"

\* A dict with the three keys of a send result: an integer errcode, an
\* errmsg, a msgid.
IsSendResult(d) ==
    /\ DOMAIN d = {"errcode", "errmsg", "msgid"}
    /\ d.errcode \in Int
    /\ d.errmsg \in Seq(STRING)
    /\ d.msgid # None => d.msgid[1].type \in {"int", "str"}

LastVendorReply == IF vendor.send # None THEN vendor.send ELSE vendor.token

\* The reply is a JSON object with a non-zero integer errcode.
IsVendorError(reply) ==
    /\ reply.transport = "ok"
    /\ reply.errcode # None
    /\ reply.errcode[1].type = "int"
    /\ reply.errcode[1].text # <<"0">>

\* The call failed at the vendor and the vendor named no code: a transport
\* failure, a body that is no JSON object, or a token reply without token.
NoNumericCode(reply) ==
    \/ reply.transport # "ok"
    \/ /\ reply.errcode = None
       /\ vendor.send = None
       /\ ~Truthy(reply.access_token)

\* C12: when the token endpoint or the send endpoint of either platform
\* answers a non-zero integer errcode c, the adapter's result has errcode c
\* and an errmsg containing the vendor's errmsg, and /send answers HTTP 400
\* with errcode c; when the vendor names no code the result errcode is 50000.
C12_VendorErrcodePassedThrough ==
    (result # None /\ LastVendorReply # None) =>
        LET reply == LastVendorReply[1]
        IN  /\ IsVendorError(reply) =>
                  /\ IntToStr(result[1].errcode) = reply.errcode[1].text
                  /\ Contains(result[1].errmsg, reply.errmsg)
                  /\ pc = "done" =>
                        /\ resp[1].status = 400
                        /\ resp[1].errcode = result[1].errcode
            /\ NoNumericCode(reply) => result[1].errcode = 50000

C12_Witness ==
    /\ pc = "done"
    /\ req.channel = Some(<<"workwechat">>)
    /\ vendor.send # None
    /\ vendor.send[1].errcode = Some(JsonInt(VENDOR_ERRCODE_BUSY))
    /\ result[1].errcode = -1
    /\ resp[1].status = 400
    /\ resp[1].errcode = -1

\* C13: no response carries errcode 50000 with an HTTP status other than
\* 500.
C13_Errcode50000OnlyWithHttp500 ==
    (resp # None /\ resp[1].errcode = 50000) => resp[1].status = 500

\* The request in flight is for WorkWeChat and its agentid (the explicit one,
\* else the configured default) is absent or no integer.
AgentIdUnusable ==
    /\ req.channel = Some(<<"workwechat">>)
    /\ LET agentid == IF Truthy(req.agentid) THEN req.agentid
                      ELSE settings.default_workwechat_agentid
       IN  \/ ~Truthy(agentid)
           \/ \E i \in 1..Len(agentid[1]) :
                  \A n \in 1..10 : Digits[n] # agentid[1][i]

\* C14: WorkWeChat send_message, when the agentid is absent (no explicit
\* value, no configured default) or no integer, returns a result with errcode
\* 40000, msgid null and an errmsg naming agentid, makes no vendor call, and
\* /send answers HTTP 400.
C14_BadAgentIdIs40000 ==
    ( /\ AgentIdUnusable
      /\ pc \in {"token", "send", "adapter_done", "adapter_raised", "done"}
      /\ pc = "done" => result # None ) =>
        /\ pc \in {"adapter_done", "done"}
        /\ result # None
        /\ result[1].errcode = 40000
        /\ result[1].msgid = None
        /\ Contains(result[1].errmsg, <<"agentid">>)
        /\ NoVendorCall
        /\ pc = "done" => resp[1].status = 400 /\ resp[1].errcode = 40000

C14_Witness ==
    /\ pc = "done"
    /\ AgentIdUnusable
    /\ req.agentid = Some(<<"a", "b", "c">>)
    /\ settings.default_workwechat_agentid # None
    /\ result # None
    /\ resp[1].status = 400

\* C15: WeChat send_message with no explicit template id and no configured
\* default returns a non-zero errcode and an errmsg that names template_id,
\* whatever the token endpoint answers.
C15_MissingTemplateIdIsNamed ==
    ( /\ result # None
      /\ pc # "adapter_raised"
      /\ WithDefaults(req).channel = Some(<<"wechat">>)
      /\ ~Truthy(req.template_id)
      /\ ~Truthy(settings.default_wechat_template_id) ) =>
        /\ result[1].errcode # 0
        /\ Contains(result[1].errmsg, <<"template_id">>)

\* What a result tells about the client its call found: none at all, one
\* that was being closed, or (no client error) one it could use.
ClientFound(res) ==
    IF Contains(res[1].errmsg, CLIENT_NOT_INITIALIZED) THEN "None"
    ELSE IF Contains(res[1].errmsg, CLIENT_CLOSED) THEN "closing"
    ELSE "open"

\* C16: send_message called a second time with the same arguments, and
\* answered by the vendor as the first time (through a client in the same
\* condition), returns the same result with the same number of vendor
\* calls; the token a second call sends with was fetched by that call (none
\* is carried over).
C16_RepeatedSendIsIdempotent ==
    prev # None =>
        /\ ( /\ pc = "adapter_done" /\ vendor = prev[1].vendor
             /\ ClientFound(result) = ClientFound(prev[1].result) ) =>
              /\ result = prev[1].result
              /\ token_calls = prev[1].token_calls
              /\ send_calls = prev[1].send_calls
        /\ pc = "send" => token_calls = 1
        /\ vendor.token # None => token_calls = 1

C16_Witness ==
    /\ prev # None
    /\ pc = "adapter_done"
    /\ vendor = prev[1].vendor
    /\ vendor.send # None
    /\ result # None
    /\ result[1].errcode = 0
    /\ token_calls = 1

\* The secrets of the request in flight: its app secret, API key and
\* signature, and the access token the vendor issued for it.
SecretsInFlight ==
    { req[f][1] : f \in {g \in {"secret", "api_key", "signature"} : Truthy(req[g])} }
    \cup (IF vendor.token # None /\ Truthy(vendor.token[1].access_token)
          THEN {vendor.token[1].access_token[1]} ELSE { })

\* C17: no secret (app secret, API key, signature, vendor access token)
\* appears in the errmsg returned to the caller or in the error record the
\* handler logs for it, on any path.
C17_NoSecretInErrmsgOrLog ==
    (pc = "done" /\ resp # None) =>
        \A s \in SecretsInFlight :
            /\ ~Contains(resp[1].errmsg, s)
            /\ (result # None /\ result[1].errcode # 0) =>
                  ~Contains(handler_error_log(result[1]), s)

\* C18: a /send request, GET or POST, with a valid key whose fields violate
\* the SendRequest schema (a required field missing, title or content length
\* out of range, an empty appid / secret / userid, a base_url over 500) is
\* answered with the 422 schema-validation response, and no vendor call is
\* made.
C18_SchemaViolationIs422 ==
    ( /\ pc = "done"
      /\ SchemaErrors(req) # { }
      /\ "channel" \notin SchemaErrors(req)
      /\ req.api_key # None => KeyInCredentialSet
      /\ ~Truthy(req.signature) ) =>
        /\ resp[1].status = 422
        /\ resp[1].errcode = 42200
        /\ NoVendorCall

\* The vendor's send endpoint answered, and its answer reports success.
VendorSendReportedSuccess ==
    /\ vendor.send # None
    /\ vendor.send[1].transport = "ok"
    /\ vendor.send[1].errcode # None => ~NonZero(vendor.send[1].errcode[1])

\* C19: every result is fully success (errcode 0 and errmsg "ok") or fully
\* error (errcode non-zero and msgid null), and errcode 0 is produced only
\* when the vendor's send call reported success.
C19_ResultFullySuccessOrFullyError ==
    (result # None /\ pc # "adapter_raised") =>
        \/ /\ result[1].errcode = 0
           /\ result[1].errmsg = <<"ok">>
           /\ VendorSendReportedSuccess
        \/ /\ result[1].errcode # 0
           /\ result[1].msgid = None

\* C20: a POST request in signature mode with a valid key and a timestamp
\* inside the window, signed over the sorted-key JSON object of the signable
\* fields that are in its body, is accepted by the verifier.
C20_PostSignedAsSentAccepted ==
    ( /\ AuthRan
      /\ req.transport = "POST"
      /\ KeyInCredentialSet
      /\ settings.api_key_secret = Some(SHARED_SECRET)
      /\ req.timestamp # None
      /\ now - 300 <= req.timestamp[1] /\ req.timestamp[1] <= now + 300
      /\ req.signature =
             Some(HexDigest(SHARED_SECRET,
                            req.api_key[1] \o IntToStr(req.timestamp[1])
                            \o ClientBodyPayload(req))) ) =>
        auth[1][1] = TRUE
\* The keys of an Optional list of keys, as a set.
KeySet(api_keys) ==
    IF api_keys = None THEN { } ELSE {api_keys[1][i] : i \in 1..Len(api_keys[1])}

\* The credential set established at startup (startup_event logs its size).
StartupKeys ==
    IF settings.api_keys = None THEN load_api_keys_from_file(key_file.startup)
    ELSE settings.api_keys

\* C21: at every verification the set of accepted keys is the one loaded
\* when the process started, whatever has happened to api_keys.json since:
\* the validator found the key of the request valid exactly when the key is
\* in the startup set.
C21_CredentialSetFixedAtStartup ==
    AuthRan =>
        (auth[1][2] # MSG_INVALID_KEY <=> req.api_key[1] \in KeySet(StartupKeys))

\* C22: the outbound HTTP client is one process-wide instance. While
\* _async_client names an instance (from init_http_client until
\* close_http_client has set it to None) no AsyncClient is constructed, so
\* every get_http_client returns that instance and a repeated
\* init_http_client creates no second one; and no step of a request creates,
\* replaces or closes the instance.
C22_SingleClientInstance ==
    [][/\ (async_client # "None" /\ async_client' # "None")
            => clients_created' = clients_created
       /\ pc' # pc => UNCHANGED <<async_client, clients_created>>]_vars

\* A request made its token fetch and its send through the first instance.
C22_Witness ==
    /\ async_client = "open"
    /\ clients_created = 1
    /\ token_calls = 1 /\ send_calls = 1
    /\ pc = "done"

TimestampInWindow ==
    /\ req.timestamp # None
    /\ now - TIMESTAMP_VALIDITY_WINDOW <= req.timestamp[1]
    /\ req.timestamp[1] <= now + TIMESTAMP_VALIDITY_WINDOW

\* C23: the validator tests key membership, then (in signature mode) that
\* the timestamp is present, then the timestamp window, then the signature,
\* and reports the first test that fails. A key outside the credential set
\* is reported as invalid key whatever the timestamp and signature are; with
\* a valid key, a timestamp outside the window is reported as timestamp
\* expired (40003) also when the signature is wrong; signature mismatch is
\* reported only for a valid key with a timestamp inside the window.
C23_ChecksInOrder ==
    AuthRan =>
        /\ ~KeyInCredentialSet => auth[1] = <<FALSE, MSG_INVALID_KEY>>
        /\ (KeyInCredentialSet /\ Truthy(req.signature) /\ req.timestamp = None)
              => auth[1] = <<FALSE, MSG_TIMESTAMP_REQUIRED>>
        /\ ( /\ KeyInCredentialSet /\ Truthy(req.signature)
             /\ req.timestamp # None /\ ~TimestampInWindow )
              => /\ auth[1] = <<FALSE, MSG_TIMESTAMP_EXPIRED>>
                 /\ resp # None /\ resp[1].errcode = ERRCODE_TIMESTAMP_EXPIRED
        /\ auth[1][2] = MSG_SIGNATURE_FAILED
              => KeyInCredentialSet /\ TimestampInWindow /\ ~SignatureIsCorrect

\* A valid key, a timestamp outside the window and a signature that is not
\* the HMAC: rejected as timestamp expired.
C23_Witness ==
    /\ AuthFailed
    /\ KeyInCredentialSet
    /\ Truthy(req.signature) /\ IsAscii(req.signature[1])
    /\ req.timestamp = Some(now + TIMESTAMP_VALIDITY_WINDOW + 1)
    /\ settings.api_key_secret = Some(SHARED_SECRET)
    /\ ~SignatureIsCorrect
    /\ resp # None /\ resp[1].errcode = ERRCODE_TIMESTAMP_EXPIRED

\* C24: on WeChat the template id is resolved before the token fetch: for a
\* request with no explicit template id and no configured default, no
\* outbound call (token fetch or send) is ever issued.
C24_NoOutboundCallWithoutTemplateId ==
    ( /\ req.transport # ""
      /\ WithDefaults(req).channel = Some(<<"wechat">>)
      /\ ~Truthy(req.template_id)
      /\ ~Truthy(settings.default_wechat_template_id) ) =>
        token_calls = 0 /\ send_calls = 0

\* The token fetch of the request in flight failed: a network, timeout or
\* HTTP error or an unreadable body, a non-zero errcode, or no access_token.
TokenFetchFailed ==
    /\ vendor.token # None
    /\ \/ vendor.token[1].transport # "ok"
       \/ vendor.token[1].errcode # None /\ NonZero(vendor.token[1].errcode[1])
       \/ ~Truthy(vendor.token[1].access_token)

\* C25: on both platforms, once the token fetch has failed the send call is
\* never issued and send_message is over with an error result: no msgid, and
\* a non-zero errcode whenever the vendor's errcode (if any) is an integer.
C25_TokenFailureStopsSend ==
    TokenFetchFailed =>
        /\ send_calls = 0 /\ vendor.send = None
        /\ pc \in {"adapter_done", "done"}
        /\ result # None
        /\ result[1].msgid = None
        /\ result[1].errmsg # <<"ok">>
        /\ (vendor.token[1].errcode # None => vendor.token[1].errcode[1].type = "int")
              => result[1].errcode # 0

C25_Witness ==
    /\ TokenFetchFailed
    /\ IsVendorError(vendor.token[1])
    /\ WithDefaults(req).channel = Some(<<"workwechat">>)
    /\ pc = "done"
    /\ send_calls = 0

\* The token fetch returned a token: a JSON object without a non-zero
\* errcode and with an access_token.
TokenReturned ==
    /\ vendor.token # None
    /\ vendor.token[1].transport = "ok"
    /\ vendor.token[1].errcode # None => ~NonZero(vendor.token[1].errcode[1])
    /\ Truthy(vendor.token[1].access_token)

\* C26: a /send request issues at most one token fetch and at most one send
\* call, the send call only after its token fetch returned a token; a failed
\* call is not issued again.
C26_OneTokenFetchThenOneSend ==
    /\ token_calls \in {0, 1}
    /\ send_calls \in {0, 1}
    /\ token_calls = 1 <=> vendor.token # None
    /\ send_calls = 1 <=> vendor.send # None
    /\ send_calls = 1 => token_calls = 1 /\ TokenReturned
    /\ pc = "send" => token_calls = 1 /\ TokenReturned /\ send_calls = 0

\* The send call failed on the network and the request is over: one token
\* fetch, one send call.
C26_Witness ==
    /\ pc = "done"
    /\ req.transport \in {"GET", "POST"}
    /\ token_calls = 1 /\ send_calls = 1
    /\ vendor.send[1].transport = "request_error"

\* A step of the request in flight, from its arrival to its response.
RequestStep == pc' # pc

CouldNotObtainClient ==
    /\ result # None
    /\ send_calls = 0
    /\ \/ /\ token_calls = 0
          /\ ~(IsWorkWeChat(WithDefaults(req)) /\ AgentIdFailure(WithDefaults(req)) # None)
       \/ /\ token_calls = 1
          /\ TokenReturned
          /\ IsWorkWeChat(WithDefaults(req)) \/ Truthy(ResolveTemplateId(WithDefaults(req)))

IsResponse(r) ==
    /\ DOMAIN r = {"status", "errcode", "errmsg", "msgid"}
    /\ r.status \in {HTTP_200_OK, HTTP_400_BAD_REQUEST, HTTP_401_UNAUTHORIZED,
                     HTTP_422_UNPROCESSABLE_ENTITY, HTTP_500_INTERNAL_SERVER_ERROR}
    /\ r.errcode \in Int

\* C28: however the steps of a request interleave with init_http_client and
\* close_http_client (a request before the client is opened, while it is
\* being closed, after it is closed), the request ends with exactly one
\* structured response: every received request is eventually answered, the
\* response once produced does not change, no exception leaves the adapter,
\* and a request that found no usable client for a call has an error result
\* with errcode 50000, delivered with errcode 50000.
C28_EveryRequestAnswered ==
    /\ [](/\ pc # "adapter_raised"
          /\ resp # None <=> pc = "done"
          /\ resp # None => IsResponse(resp[1])
          /\ CouldNotObtainClient =>
                /\ result[1].errcode = ERRCODE_INTERNAL
                /\ result[1].msgid = None
                /\ pc = "done" => resp[1].errcode = ERRCODE_INTERNAL)
    /\ (pc = "received") ~> (pc = "done" /\ resp # None)

\* A request that reached the token step while the client was being closed
\* has been answered with 50000.
C28_Witness ==
    /\ pc = "done"
    /\ CouldNotObtainClient
    /\ token_calls = 0
    /\ async_client = "closing"
    /\ Contains(result[1].errmsg, CLIENT_CLOSED)
    /\ resp[1].errcode = ERRCODE_INTERNAL

\* What the auth validator of r's transport answers for r.
Verifies(r) ==
    IF r.transport = "GET" THEN verify_api_key_dependency(r)[1]
    ELSE verify_api_key_from_body(WithDefaults(r))[1]

\* The request fields the handler passes on to the adapter.
DispatchedFields ==
    {"title", "content", "appid", "secret", "userid", "base_url", "template_id",
     "agentid", "channel"}

OtherValues == {Some(<<"8">>), Some(<<"other">>)}

\* C29: in signature mode the signature binds every dispatched field: when a
\* signed request has been accepted, the same request with any one
\* dispatched field given another value (agentid on POST in particular), and
\* the same signature, is rejected.
C29_SignatureBindsDispatchedFields ==
    (AuthPassed /\ Truthy(req.signature)) =>
        \A f \in DispatchedFields : \A v \in OtherValues :
            v # req[f] => ~Verifies([req EXCEPT ![f] = v])

\* C30: a signature generated for the triple (api_key, timestamp, payload)
\* verifies, under the same secret, for no other triple.
C30_SignatureVerifiesOnlyItsTriple ==
    (sec.fn = "verify_signature" /\ sec.signature # None) =>
        \A c \in SignatureCalls :
            <<c.api_key, c.timestamp, c.payload>>
                    # <<sec.api_key, sec.timestamp, sec.payload>>
                => ~verify_signature(c.api_key, c.timestamp, c.payload,
                                     sec.signature[1], sec.secret)

====
